---- MODULE Spec2Model ----
(***************************************************************************)
(* The chunking engine of hr_policy_etl (src/chunking/chunker.py):         *)
(* chunk_text, _split_large_paragraph and _get_tail_overlap.               *)
(*                                                                         *)
(* A string is a sequence of symbols.  A symbol is a whitespace character  *)
(* (" " or "\n"), a sentence-terminal punctuation mark (".", "!", "?") or  *)
(* any other non-blank glyph.  The string operations of the source         *)
(* (str.split, str.strip, str.join, re.split) are defined on these         *)
(* sequences character by character.                                       *)
(***************************************************************************)
EXTENDS Integers, Sequences, FiniteSets, TLC

VARIABLES
    text,                     \* the argument text of the call
    target_encoding_words,    \* the argument target_encoding_words
    overlap_words,            \* the argument overlap_words
    pc,                       \* position of the call
    original_paragraphs,      \* chunk_text: the non-blank paragraphs
    idx,                      \* chunk_text: paragraphs consumed by the for loop
    chunks,                   \* chunk_text: the output list
    current_chunk_paragraphs, \* chunk_text: the buffer
    current_word_count,       \* chunk_text: the running counter
    split_calls,              \* history: indices of paragraphs handed to _split_large_paragraph
    ret,                      \* return value of a direct call of a helper
    prev,                     \* return value of the preceding direct call
    raw_paragraphs,           \* semantic_chunking: text.split('\n\n')
    para_words,               \* semantic_chunking: the words of the paragraph left to place
    current_chunk_words,      \* semantic_chunking: the words of the chunk being built
    file,                     \* main: what the file system holds at args.file_path
    raw_text,                 \* main: the extracted text
    exit_status,              \* main: the status of sys.exit, "none" while running
    saved                     \* main: the records written by save_chunks, "none" before

\* the state of the single-file script
etl_vars == <<raw_paragraphs, para_words, current_chunk_words, file, raw_text,
              exit_status, saved>>

\* the arguments and locals of chunk_text and of the direct calls
chunker_vars == <<target_encoding_words, overlap_words, original_paragraphs,
                  current_chunk_paragraphs, current_word_count, split_calls, ret, prev>>

vars == <<text, target_encoding_words, overlap_words, pc, original_paragraphs, idx,
          chunks, current_chunk_paragraphs, current_word_count, split_calls, ret, prev,
          raw_paragraphs, para_words, current_chunk_words, file, raw_text,
          exit_status, saved>>

----------------------------------------------------------------------------
(* Bounds of the model *)

MaxDocWords == 5
MaxTarget == 3
MaxOverlap == 2
MaxLen == 5
MaxSplitWords == 5
MaxSemParas == 3

----------------------------------------------------------------------------
(* Strings *)

WS == {" ", "\n", "\t", "\r", "nbsp"}
TERMINAL == {".", "!", "?"}

SP == <<" ">>
PARA_SEP == <<"\n", "\n">>

RECURSIVE SplitWs(_, _, _, _)
SplitWs(s, i, cur, acc) ==
    IF i > Len(s)
    THEN IF cur = <<>> THEN acc ELSE Append(acc, cur)
    ELSE IF s[i] \in WS
         THEN SplitWs(s, i + 1, <<>>, IF cur = <<>> THEN acc ELSE Append(acc, cur))
         ELSE SplitWs(s, i + 1, Append(cur, s[i]), acc)

\* s.split(): the maximal runs of non-whitespace symbols
split(s) == SplitWs(s, 1, <<>>, <<>>)

RECURSIVE join(_, _)
\* sep.join(list)
join(sep, list) ==
    IF list = <<>> THEN <<>>
    ELSE IF Len(list) = 1 THEN list[1]
    ELSE list[1] \o sep \o join(sep, Tail(list))

RECURSIVE lstrip(_)
lstrip(s) == IF s # <<>> /\ s[1] \in WS THEN lstrip(Tail(s)) ELSE s

RECURSIVE rstrip(_)
rstrip(s) == IF s # <<>> /\ s[Len(s)] \in WS THEN rstrip(SubSeq(s, 1, Len(s) - 1)) ELSE s

\* s.strip()
strip(s) == rstrip(lstrip(s))

RECURSIVE SplitSep(_, _, _, _)
SplitSep(s, i, cur, acc) ==
    IF i > Len(s)
    THEN Append(acc, cur)
    ELSE IF i < Len(s) /\ s[i] = "\n" /\ s[i + 1] = "\n"
         THEN SplitSep(s, i + 2, <<>>, Append(acc, cur))
         ELSE SplitSep(s, i + 1, Append(cur, s[i]), acc)

\* s.split('\n\n')
split_paragraphs(s) == SplitSep(s, 1, <<>>, <<>>)

RECURSIVE SkipWs(_, _)
SkipWs(s, i) == IF i <= Len(s) /\ s[i] \in WS THEN SkipWs(s, i + 1) ELSE i

RECURSIVE ReSplit(_, _, _, _)
ReSplit(s, i, cur, acc) ==
    IF i > Len(s)
    THEN Append(acc, cur)
    ELSE IF s[i] \in WS /\ i > 1 /\ s[i - 1] \in TERMINAL
         THEN ReSplit(s, SkipWs(s, i), <<>>, Append(acc, cur))
         ELSE ReSplit(s, i + 1, Append(cur, s[i]), acc)

\* re.split(r'(?<=[.!?])\s+', s)
re_split_sentences(s) == ReSplit(s, 1, <<>>, <<>>)

\* list[start:] of Python, for any integer start
slice_from(list, start) ==
    LET n == Len(list)
        from == IF start < 0
                THEN (IF n + start > 0 THEN n + start ELSE 0)
                ELSE (IF start < n THEN start ELSE n)
    IN  SubSeq(list, from + 1, n)

----------------------------------------------------------------------------
(* _get_tail_overlap *)

\* the slice without its minus sign: words[overlap_words:]
tail_words_no_minus(words, n) == slice_from(words, n)

\* words[-overlap_words:]
tail_words(words, n) == slice_from(words, 0 - n)

get_tail_overlap(s, n) ==
    IF s = <<>> THEN <<>>
    ELSE LET words == split(s)
         IN  IF Len(words) <= n THEN s
             ELSE join(SP, tail_words(words, n))

----------------------------------------------------------------------------
(* _split_large_paragraph *)

\* "if current_count + s_len > target"
sentence_exceeds(current_count, s_len, target) == current_count + s_len > target

\* sentences = [s.strip() for s in re.split(...) if s.strip()]
sentences_of(s) ==
    LET raw == re_split_sentences(s)
        keep == SelectSeq(raw, LAMBDA x : strip(x) # <<>>)
    IN  [k \in 1..Len(keep) |-> strip(keep[k])]

\* the final "if current_sents: sub_chunks.append(...)"
split_flush(sub_chunks, current_sents) ==
    IF current_sents # <<>> THEN Append(sub_chunks, join(SP, current_sents)) ELSE sub_chunks

RECURSIVE SplitLoop(_, _, _, _, _, _, _)
\* the for loop over the sentences, from sentence i on
SplitLoop(sentences, i, sub_chunks, current_sents, current_count, target, overlap) ==
    IF i > Len(sentences)
    THEN split_flush(sub_chunks, current_sents)
    ELSE LET sent == sentences[i]
             s_len == Len(split(sent))
         IN  IF sentence_exceeds(current_count, s_len, target) /\ current_sents # <<>>
             THEN LET chunk_str == join(SP, current_sents)
                      ov_text == get_tail_overlap(chunk_str, overlap)
                      seeded == IF ov_text # <<>> THEN <<ov_text>> ELSE <<>>
                      count == IF ov_text # <<>> THEN Len(split(ov_text)) ELSE 0
                  IN  SplitLoop(sentences, i + 1, Append(sub_chunks, chunk_str),
                                Append(seeded, sent), count + s_len, target, overlap)
             ELSE SplitLoop(sentences, i + 1, sub_chunks,
                            Append(current_sents, sent), current_count + s_len,
                            target, overlap)

split_large_paragraph(s, target, overlap) ==
    SplitLoop(sentences_of(s), 1, <<>>, <<>>, 0, target, overlap)

----------------------------------------------------------------------------
(* chunk_text *)

\* "if not text: return []"
is_empty_text(s) == s = <<>>

\* original_paragraphs = [p for p in text.split('\n\n') if p.strip()]
paragraphs_of(s) == SelectSeq(split_paragraphs(s), LAMBDA p : strip(p) # <<>>)

\* "if current_word_count + words_in_para > target_encoding_words"
exceeds_limit(count, words_in_para, target) == count + words_in_para > target

\* the comparison with >= for >
is_huge_or_equal(words_in_para, target) == words_in_para >= target

\* "if words_in_para > target_encoding_words"
is_huge(words_in_para, target) == words_in_para > target

\* Scenario A without "current_word_count = 0": the seed is added to the old count
finalize_buffer_no_reset(out, buffer, count, overlap) ==
    IF buffer # <<>>
    THEN LET chunk_str == join(PARA_SEP, buffer)
             overlap_text == get_tail_overlap(chunk_str, overlap)
         IN  [chunks |-> Append(out, chunk_str),
              buffer |-> IF overlap_text # <<>> THEN <<overlap_text>> ELSE <<>>,
              count  |-> IF overlap_text # <<>> THEN count + Len(split(overlap_text))
                         ELSE count]
    ELSE [chunks |-> out, buffer |-> buffer, count |-> count]

\* Scenario A: finalize the buffer when it has content and reseed it with the
\* overlap; the record is the state of chunks, buffer and counter after line 52
finalize_buffer(out, buffer, count, overlap) ==
    IF buffer # <<>>
    THEN LET chunk_str == join(PARA_SEP, buffer)
             overlap_text == get_tail_overlap(chunk_str, overlap)
         IN  [chunks |-> Append(out, chunk_str),
              buffer |-> IF overlap_text # <<>> THEN <<overlap_text>> ELSE <<>>,
              count  |-> IF overlap_text # <<>> THEN Len(split(overlap_text)) ELSE 0]
    ELSE [chunks |-> out, buffer |-> buffer, count |-> count]

\* the seed assigned to the first sub-chunk instead of prepended to it
merge_seed_overwrite(buffer, sub_chunks) ==
    IF buffer # <<>>
    THEN [sub_chunks EXCEPT ![1] = buffer[1]]
    ELSE sub_chunks

\* "sub_chunks[0] = current_chunk_paragraphs[0] + " " + sub_chunks[0]"
merge_seed(buffer, sub_chunks) ==
    IF buffer # <<>>
    THEN [sub_chunks EXCEPT ![1] = buffer[1] \o SP \o sub_chunks[1]]
    ELSE sub_chunks

\* "current_chunk_paragraphs = []" under "if current_chunk_paragraphs:" (line 64)
clear_merged(buffer) == IF buffer # <<>> THEN <<>> ELSE buffer

\* the buffer and the counter after the last sub-chunk was appended (lines 80-86)
reseed_after_split(buffer, last_sub, overlap) ==
    LET overlap_text == get_tail_overlap(last_sub, overlap)
    IN  IF overlap_text # <<>>
        THEN [buffer |-> Append(buffer, overlap_text), count |-> Len(split(overlap_text))]
        ELSE [buffer |-> buffer, count |-> 0]

\* the return without the final flush
final_flush_missing(out, buffer) == out

\* the final flush
final_flush(out, buffer) ==
    IF buffer # <<>> THEN Append(out, join(PARA_SEP, buffer)) ELSE out

paragraph == original_paragraphs[idx + 1]
words_in_para == Len(split(paragraph))

\* lines 20-28: the early return, or the paragraph split and the empty buffer
Enter ==
    /\ pc = "start"
    /\ IF is_empty_text(text)
       THEN /\ pc' = "done"
            /\ original_paragraphs' = <<>>
       ELSE /\ pc' = "loop"
            /\ original_paragraphs' = paragraphs_of(text)
    /\ chunks' = <<>>
    /\ current_chunk_paragraphs' = <<>>
    /\ current_word_count' = 0
    /\ idx' = 0
    /\ UNCHANGED <<text, target_encoding_words, overlap_words, split_calls, ret, prev>>
    /\ UNCHANGED etl_vars

\* lines 95-98: the paragraph fits in the current chunk
AppendParagraph ==
    /\ pc = "loop"
    /\ idx < Len(original_paragraphs)
    /\ ~exceeds_limit(current_word_count, words_in_para, target_encoding_words)
    /\ current_chunk_paragraphs' = Append(current_chunk_paragraphs, paragraph)
    /\ current_word_count' = current_word_count + words_in_para
    /\ idx' = idx + 1
    /\ UNCHANGED <<text, target_encoding_words, overlap_words, pc, original_paragraphs,
                   chunks, split_calls, ret, prev>>
    /\ UNCHANGED etl_vars

\* lines 34-52 and 90-93: finalize the buffer, then the paragraph starts the next one
FinalizeAndAppend ==
    /\ pc = "loop"
    /\ idx < Len(original_paragraphs)
    /\ exceeds_limit(current_word_count, words_in_para, target_encoding_words)
    /\ ~is_huge(words_in_para, target_encoding_words)
    /\ LET f == finalize_buffer(chunks, current_chunk_paragraphs, current_word_count,
                                overlap_words)
       IN  /\ chunks' = f.chunks
           /\ current_chunk_paragraphs' = Append(f.buffer, paragraph)
           /\ current_word_count' = f.count + words_in_para
    /\ idx' = idx + 1
    /\ UNCHANGED <<text, target_encoding_words, overlap_words, pc, original_paragraphs,
                   split_calls, ret, prev>>
    /\ UNCHANGED etl_vars

\* lines 34-52 and 55-88: finalize the buffer, then split the giant paragraph
SplitHugeParagraph ==
    /\ pc = "loop"
    /\ idx < Len(original_paragraphs)
    /\ exceeds_limit(current_word_count, words_in_para, target_encoding_words)
    /\ is_huge(words_in_para, target_encoding_words)
    /\ LET f == finalize_buffer(chunks, current_chunk_paragraphs, current_word_count,
                                overlap_words)
           raw == split_large_paragraph(paragraph, target_encoding_words, overlap_words)
           sub_chunks == merge_seed(f.buffer, raw)
           r == reseed_after_split(clear_merged(f.buffer), sub_chunks[Len(sub_chunks)],
                                   overlap_words)
       IN  /\ chunks' = f.chunks \o sub_chunks
           /\ current_chunk_paragraphs' = r.buffer
           /\ current_word_count' = r.count
    /\ split_calls' = split_calls \cup {idx + 1}
    /\ idx' = idx + 1
    /\ UNCHANGED <<text, target_encoding_words, overlap_words, pc, original_paragraphs,
                   ret, prev>>
    /\ UNCHANGED etl_vars

\* lines 100-104: the final flush and the return
FinalFlush ==
    /\ pc = "loop"
    /\ idx = Len(original_paragraphs)
    /\ chunks' = final_flush(chunks, current_chunk_paragraphs)
    /\ pc' = "done"
    /\ UNCHANGED <<text, target_encoding_words, overlap_words, original_paragraphs, idx,
                   current_chunk_paragraphs, current_word_count, split_calls, ret, prev>>
    /\ UNCHANGED etl_vars

----------------------------------------------------------------------------
(* Direct calls of the helpers *)

\* _get_tail_overlap(text, overlap_words)
CallTail ==
    /\ pc = "tail"
    /\ ret' = get_tail_overlap(text, overlap_words)
    /\ pc' = "tail_once"
    /\ UNCHANGED <<text, target_encoding_words, overlap_words, original_paragraphs, idx,
                   chunks, current_chunk_paragraphs, current_word_count, split_calls, prev>>
    /\ UNCHANGED etl_vars

\* _get_tail_overlap applied to its own result
CallTailAgain ==
    /\ pc = "tail_once"
    /\ prev' = ret
    /\ ret' = get_tail_overlap(ret, overlap_words)
    /\ pc' = "tail_twice"
    /\ UNCHANGED <<text, target_encoding_words, overlap_words, original_paragraphs, idx,
                   chunks, current_chunk_paragraphs, current_word_count, split_calls>>
    /\ UNCHANGED etl_vars

\* _split_large_paragraph(text, target, overlap)
CallSplit ==
    /\ pc = "split"
    /\ ret' = split_large_paragraph(text, target_encoding_words, overlap_words)
    /\ pc' = "split_done"
    /\ UNCHANGED <<text, target_encoding_words, overlap_words, original_paragraphs, idx,
                   chunks, current_chunk_paragraphs, current_word_count, split_calls, prev>>
    /\ UNCHANGED etl_vars

----------------------------------------------------------------------------
(* semantic_chunking of the single-file script *)

MAX_CHUNK_WORDS == 500
OVERLAP_WORDS == 50

RECURSIVE SplitRange(_, _, _)
\* the words of s[lo..hi]; a word that runs across the middle is put together again
SplitRange(s, lo, hi) ==
    IF lo > hi THEN <<>>
    ELSE IF lo = hi THEN (IF s[lo] \in WS THEN <<>> ELSE <<<<s[lo]>>>>)
    ELSE LET m == (lo + hi) \div 2
             L == SplitRange(s, lo, m)
             R == SplitRange(s, m + 1, hi)
         IN  IF s[m] \notin WS /\ s[m + 1] \notin WS
             THEN SubSeq(L, 1, Len(L) - 1) \o <<L[Len(L)] \o R[1]>> \o Tail(R)
             ELSE L \o R

\* clean_para.split(), evaluated by halves so that it reaches long paragraphs
split_words(s) == SplitRange(s, 1, Len(s))

RECURSIVE JoinRange(_, _, _)
JoinRange(list, lo, hi) ==
    IF lo > hi THEN <<>>
    ELSE IF lo = hi THEN list[lo]
    ELSE LET m == (lo + hi) \div 2
         IN  JoinRange(list, lo, m) \o SP \o JoinRange(list, m + 1, hi)

\* " ".join(words), evaluated by halves
join_words(words) == JoinRange(words, 1, Len(words))

\* list[:stop] of Python, for any integer stop
slice_to(list, stop) ==
    LET n == Len(list)
        to == IF stop < 0
              THEN (IF n + stop > 0 THEN n + stop ELSE 0)
              ELSE (IF stop < n THEN stop ELSE n)
    IN  SubSeq(list, 1, to)

\* "while len(para_words) + len(current_chunk_words) > MAX_CHUNK_WORDS"
needs_split(words, current) == Len(words) + Len(current) > MAX_CHUNK_WORDS

\* the space without the words already in the chunk subtracted
remaining_space_whole(current) == MAX_CHUNK_WORDS

\* "remaining_space = MAX_CHUNK_WORDS - len(current_chunk_words)"
remaining_space(current) == MAX_CHUNK_WORDS - Len(current)

\* "overlap_start = max(0, len(previous_chunk_words) - OVERLAP_WORDS)"
overlap_start(previous_chunk_words) ==
    IF Len(previous_chunk_words) - OVERLAP_WORDS > 0
    THEN Len(previous_chunk_words) - OVERLAP_WORDS
    ELSE 0

\* the last "if current_chunk_words: chunks.append(...)"
sem_flush(out, current) ==
    IF current # <<>> THEN Append(out, join_words(current)) ELSE out

raw_para == raw_paragraphs[idx + 1]

\* lines 168-171: a blank paragraph is skipped
SemSkipBlank ==
    /\ pc = "sem_for"
    /\ idx < Len(raw_paragraphs)
    /\ strip(raw_para) = <<>>
    /\ idx' = idx + 1
    /\ UNCHANGED <<text, pc, chunks, raw_paragraphs, para_words, current_chunk_words,
                   file, raw_text, exit_status, saved>>
    /\ UNCHANGED chunker_vars

\* lines 168-173: the words of the next non-blank paragraph
SemTakeParagraph ==
    /\ pc = "sem_for"
    /\ idx < Len(raw_paragraphs)
    /\ strip(raw_para) # <<>>
    /\ para_words' = split_words(strip(raw_para))
    /\ pc' = "sem_while"
    /\ UNCHANGED <<text, idx, chunks, raw_paragraphs, current_chunk_words,
                   file, raw_text, exit_status, saved>>
    /\ UNCHANGED chunker_vars

\* lines 178-206: one turn of the while loop fills the chunk, finalizes it and
\* keeps its overlap
forced_split(words, current, out) ==
    LET space == remaining_space(current)
        to_take == slice_to(words, space)
        previous_chunk_words == current \o to_take
    IN  [chunks |-> Append(out, join_words(previous_chunk_words)),
         para_words |-> slice_from(words, space),
         current_chunk_words |->
             slice_from(previous_chunk_words, overlap_start(previous_chunk_words))]

\* lines 176-206: one turn of the while loop
SemForcedSplit ==
    /\ pc = "sem_while"
    /\ needs_split(para_words, current_chunk_words)
    /\ LET after == forced_split(para_words, current_chunk_words, chunks)
       IN  /\ chunks' = after.chunks
           /\ para_words' = after.para_words
           /\ current_chunk_words' = after.current_chunk_words
    /\ UNCHANGED <<text, pc, idx, raw_paragraphs, file, raw_text, exit_status, saved>>
    /\ UNCHANGED chunker_vars

\* lines 176 and 209: the rest of the paragraph goes to the chunk
SemExtend ==
    /\ pc = "sem_while"
    /\ ~needs_split(para_words, current_chunk_words)
    /\ current_chunk_words' = current_chunk_words \o para_words
    /\ idx' = idx + 1
    /\ pc' = "sem_for"
    /\ UNCHANGED <<text, chunks, raw_paragraphs, para_words, file, raw_text,
                   exit_status, saved>>
    /\ UNCHANGED chunker_vars

\* lines 211-215: the last chunk and the return
SemFlush ==
    /\ pc = "sem_for"
    /\ idx = Len(raw_paragraphs)
    /\ chunks' = sem_flush(chunks, current_chunk_words)
    /\ pc' = "sem_done"
    /\ UNCHANGED <<text, idx, raw_paragraphs, para_words, current_chunk_words,
                   file, raw_text, exit_status, saved>>
    /\ UNCHANGED chunker_vars

----------------------------------------------------------------------------
(* Inputs *)

\* the word at position k of a generated document is the letter Letters[k]
Letters == <<"a", "b", "c", "d", "e", "f", "g", "h", "i", "j", "k", "l", "m",
             "n", "o", "p", "q", "r", "s", "t", "u", "v", "w", "x", "y", "z">>

\* what stands between two consecutive words of a generated document: a space,
\* a line break, a sentence end, a paragraph break, or a paragraph break around
\* an empty paragraph
InParagraphGaps == {<<" ">>, <<"\n">>, <<".", " ">>}
Gaps == InParagraphGaps \cup {<<"\n", "\n">>, <<"\n", "\n", "\n", "\n">>}

RECURSIVE MakeText(_, _, _)
\* the text of n words whose word k (from word k on) is followed by gaps[k]
MakeText(n, gaps, k) ==
    IF k > n THEN <<>>
    ELSE IF k = n THEN <<Letters[k]>>
    ELSE <<Letters[k]>> \o gaps[k] \o MakeText(n, gaps, k + 1)

TextsOver(gapSet, maxWords) ==
    UNION {{MakeText(n, gaps, 1) : gaps \in [1..(n - 1) -> gapSet]} : n \in 0..maxWords}

\* every document of at most MaxDocWords words, and the document of one empty
\* paragraph pair
Docs == TextsOver(Gaps, MaxDocWords) \cup {PARA_SEP}

Word(w) == <<w>>

\* the documents of the two worked scenarios
ElevenWords ==
    join(SP, <<Word("one"), Word("two"), Word("three"), Word("four"), Word("five"),
               Word("six"), Word("seven"), Word("eight"), Word("nine"), Word("ten"),
               Word("eleven")>>)
ABC == join(SP, <<Word("a"), Word("b"), Word("c")>>)
DEFGHI == join(SP, <<Word("d"), Word("e"), Word("f"), Word("g"), Word("h"), Word("i")>>)
BCDEFGHI == join(SP, <<Word("b"), Word("c")>>) \o SP \o DEFGHI
TwoParagraphs == join(PARA_SEP, <<ABC, DEFGHI>>)

Scenarios ==
    {[text |-> ElevenWords, target |-> 10, overlap |-> 3],
     [text |-> TwoParagraphs, target |-> 5, overlap |-> 2]}

Inputs ==
    {[text |-> d, target |-> t, overlap |-> o] :
        d \in Docs, t \in 0..MaxTarget, o \in (0 - 1)..MaxOverlap}
    \cup Scenarios

Idle(p) ==
    /\ pc = p
    /\ original_paragraphs = <<>>
    /\ idx = 0
    /\ chunks = <<>>
    /\ current_chunk_paragraphs = <<>>
    /\ current_word_count = 0
    /\ split_calls = {}
    /\ ret = <<>>
    /\ prev = <<>>
    /\ raw_paragraphs = <<>>
    /\ para_words = <<>>
    /\ current_chunk_words = <<>>
    /\ file = "none"
    /\ raw_text = <<>>
    /\ exit_status = "none"
    /\ saved = "none"

\* a call of chunk_text
Init ==
    /\ \E in \in Inputs :
        /\ text = in.text
        /\ target_encoding_words = in.target
        /\ overlap_words = in.overlap
    /\ Idle("start")

Next ==
    \/ Enter
    \/ AppendParagraph
    \/ FinalizeAndAppend
    \/ SplitHugeParagraph
    \/ FinalFlush

Spec == Init /\ [][Next]_vars

----------------------------------------------------------------------------
(* Direct calls of _get_tail_overlap: every short string over a small alphabet *)

Alphabet == {"a", "b", " ", "\n"}

Strings == UNION {[1..n -> Alphabet] : n \in 0..MaxLen}

InitTail ==
    /\ text \in Strings
    /\ overlap_words \in 0..MaxOverlap
    /\ target_encoding_words = 0
    /\ Idle("tail")

NextTail == CallTail \/ CallTailAgain

SpecTail == InitTail /\ [][NextTail]_vars

(* Direct calls of _split_large_paragraph: every paragraph larger than the target *)

Paragraphs == TextsOver(InParagraphGaps, MaxSplitWords)

InitSplit ==
    /\ text \in Paragraphs
    /\ target_encoding_words \in 1..MaxTarget
    /\ overlap_words \in 0..MaxOverlap
    /\ Len(split(text)) > target_encoding_words
    /\ Idle("split")

NextSplit == CallSplit

SpecSplit == InitSplit /\ [][NextSplit]_vars

----------------------------------------------------------------------------
(* Vocabulary of the properties *)

ValidConfig == target_encoding_words >= 1 /\ overlap_words >= 0

wordcount(s) == Len(split(s))

Min(a, b) == IF a < b THEN a ELSE b

Range(f) == {f[k] : k \in DOMAIN f}

RECURSIVE Concat(_)
Concat(list) == IF list = <<>> THEN <<>> ELSE list[1] \o Concat(Tail(list))

\* a occurs in b as a contiguous run
Infix(a, b) == \E k \in 0..(Len(b) - Len(a)) : SubSeq(b, k + 1, k + Len(a)) = a

Suffix(a, b) == Len(a) <= Len(b) /\ SubSeq(b, Len(b) - Len(a) + 1, Len(b)) = a

RECURSIVE DropSeen(_, _)
\* ws without its longest prefix of words that occur in seen
DropSeen(ws, seen) ==
    IF ws # <<>> /\ ws[1] \in seen THEN DropSeen(Tail(ws), seen) ELSE ws

\* the words of chunk i that were not copied from chunk i - 1 (the words of a
\* document are pairwise distinct, so a leading word of chunk i that occurs in
\* chunk i - 1 is a seed word)
OwnWords(out, i) ==
    IF i = 1 THEN split(out[1])
    ELSE DropSeen(split(out[i]), Range(split(out[i - 1])))

Deduplicated(out) == Concat([i \in 1..Len(out) |-> OwnWords(out, i)])

----------------------------------------------------------------------------
(* C1: with target >= 1 and overlap >= 0, when chunk_text has returned, the   *)
(* chunks without the seed words each copied from its predecessor,            *)
(* concatenated in output order, are exactly the words of the document in     *)
(* document order.                                                            *)
C1_Lossless ==
    (pc = "done" /\ ValidConfig) => Deduplicated(chunks) = split(text)

C1_Witness ==
    /\ pc = "done" /\ ValidConfig /\ overlap_words >= 1
    /\ split_calls # {}
    /\ Len(original_paragraphs) >= 2
    /\ Len(chunks) >= 3
    /\ \E i \in 2..Len(chunks) :
          /\ OwnWords(chunks, i) # split(chunks[i])
          /\ OwnWords(chunks, i) # <<>>
    /\ Deduplicated(chunks) = split(text)

(* C2: with overlap >= 1 (and target >= 1), every chunk after the first       *)
(* begins with the last k words of its predecessor,                           *)
(* k = min(overlap_words, wordcount(predecessor)).                            *)
C2_OverlapPrefix ==
    (target_encoding_words >= 1 /\ overlap_words >= 1) =>
        \A i \in 1..(Len(chunks) - 1) :
            LET a == split(chunks[i])
                b == split(chunks[i + 1])
                k == Min(overlap_words, Len(a))
            IN  /\ Len(b) >= k
                /\ SubSeq(b, 1, k) = SubSeq(a, Len(a) - k + 1, Len(a))

(* C3: every sub-chunk _split_large_paragraph returns for a paragraph of more *)
(* than target words has at most target words, unless it contains a sentence  *)
(* of more than target words.                                                 *)
C3_SubChunkBound ==
    pc = "split_done" =>
        \A j \in 1..Len(ret) :
            \/ wordcount(ret[j]) <= target_encoding_words
            \/ \E s \in Range(sentences_of(text)) :
                  /\ wordcount(s) > target_encoding_words
                  /\ Infix(split(s), split(ret[j]))

(* C4: _get_tail_overlap(text, n), n >= 0, has at most n words: it is the     *)
(* text unchanged when the text has at most n words, and otherwise the last n *)
(* words of the text joined by single spaces.                                 *)
C4_TailIsLastN ==
    pc = "tail_once" =>
        LET words == split(text)
            n == overlap_words
        IN  /\ wordcount(ret) <= n
            /\ Len(words) <= n => ret = text
            /\ Len(words) > n => ret = join(SP, SubSeq(words, Len(words) - n + 1, Len(words)))

(* C5: when the last paragraph is an oversized paragraph of one sentence, the *)
(* chunk that holds it is the last chunk of the output; the 11-word document  *)
(* (target 10, overlap 3) gives one chunk, and 'a b c' followed by            *)
(* 'd e f g h i' (target 5, overlap 2) gives 'a b c' and 'b c d e f g h i'.   *)
C5_OversizedLastIsLast ==
    pc = "done" =>
        /\ (text = ElevenWords /\ target_encoding_words = 10 /\ overlap_words = 3)
              => chunks = <<ElevenWords>>
        /\ (text = TwoParagraphs /\ target_encoding_words = 5 /\ overlap_words = 2)
              => chunks = <<ABC, BCDEFGHI>>
        /\ (/\ ValidConfig
            /\ original_paragraphs # <<>>
            /\ LET last == original_paragraphs[Len(original_paragraphs)]
               IN  /\ wordcount(last) > target_encoding_words
                   /\ Len(sentences_of(last)) = 1)
              => /\ chunks # <<>>
                 /\ Suffix(strip(original_paragraphs[Len(original_paragraphs)]),
                           chunks[Len(chunks)])

(* C6: chunk_text returns no chunk for the empty string; with target >= 1 and *)
(* overlap >= 0 it returns at least one chunk for a text that has a non-blank *)
(* paragraph, and every chunk it puts out has at least one word.              *)
C6_NonEmptyOutput ==
    /\ (pc = "done" /\ text = <<>>) => chunks = <<>>
    /\ (pc = "done" /\ ValidConfig /\ split(text) # <<>>) => chunks # <<>>
    /\ ValidConfig => \A i \in 1..Len(chunks) : split(chunks[i]) # <<>>

C6_Witness ==
    /\ pc = "done" /\ ValidConfig /\ overlap_words >= 1
    /\ split(text) # <<>>
    /\ Len(chunks) >= 2
    /\ \A i \in 1..Len(chunks) : split(chunks[i]) # <<>>

(* C7: a consumed paragraph of at most target words was never handed to       *)
(* _split_large_paragraph and sits whole in one buffer: as an element of the  *)
(* current buffer or, once that buffer is finalized, as a contiguous run of   *)
(* one output chunk.                                                          *)
C7_SmallParagraphWhole ==
    \A i \in 1..idx :
        wordcount(original_paragraphs[i]) <= target_encoding_words =>
            /\ i \notin split_calls
            /\ \/ \E c \in 1..Len(chunks) : Infix(original_paragraphs[i], chunks[c])
               \/ /\ pc = "loop"
                  /\ \E b \in 1..Len(current_chunk_paragraphs) :
                        current_chunk_paragraphs[b] = original_paragraphs[i]

C7_Witness ==
    /\ pc = "done" /\ ValidConfig /\ overlap_words >= 1
    /\ split_calls # {}
    /\ \E i \in 1..idx :
          /\ wordcount(original_paragraphs[i]) <= target_encoding_words
          /\ i > 1
          /\ \E c \in 2..Len(chunks) :
                /\ Infix(original_paragraphs[i], chunks[c])
                /\ chunks[c] # original_paragraphs[i]

(* C8: with target >= 1, 0 <= overlap < target and no paragraph of more than  *)
(* target words, every output chunk has at most target words.                 *)
C8_ChunkWithinTarget ==
    (/\ target_encoding_words >= 1
     /\ overlap_words >= 0
     /\ overlap_words < target_encoding_words
     /\ \A p \in Range(paragraphs_of(text)) : wordcount(p) <= target_encoding_words)
        => \A i \in 1..Len(chunks) : wordcount(chunks[i]) <= target_encoding_words

(* C9: a call with target <= 0 or overlap < 0 ends in a configuration error:  *)
(* it never enters the assembly loop, never returns normally and has no chunk.*)
C9_MalformedConfigRejected ==
    (target_encoding_words <= 0 \/ overlap_words < 0) =>
        /\ pc \in {"start", "config_error"}
        /\ chunks = <<>>

(* C10: _get_tail_overlap applied to its own result with the same n >= 0      *)
(* returns that result.                                                       *)
C10_TailIdempotent ==
    pc = "tail_twice" => ret = prev

C10_Witness ==
    /\ pc = "tail_twice"
    /\ overlap_words >= 1
    /\ wordcount(text) > overlap_words
    /\ prev # text
    /\ ret = prev

RECURSIVE SumWords(_)
\* the words held in a list of strings
SumWords(list) == IF list = <<>> THEN 0 ELSE wordcount(list[1]) + SumWords(Tail(list))

(* C13: at the start of every paragraph iteration and at the final flush the  *)
(* counter current_word_count is the number of words held in the buffer       *)
(* current_chunk_paragraphs, 0 when the buffer is empty.                      *)
C13_CounterMatchesBuffer ==
    pc = "loop" => current_word_count = SumWords(current_chunk_paragraphs)

C13_Witness ==
    /\ pc = "loop" /\ ValidConfig /\ overlap_words >= 1
    /\ idx = Len(original_paragraphs)
    /\ idx >= 3
    /\ split_calls # {} /\ 1 \notin split_calls
    /\ Len(current_chunk_paragraphs) >= 2
    /\ Len(chunks) >= 3
    /\ current_word_count = SumWords(current_chunk_paragraphs)

----------------------------------------------------------------------------
(* semantic_chunking on long paragraphs *)

\* a paragraph of n words between blanks; no word for n = 0
LongParagraph(n) == <<" ">> \o join_words([k \in 1..n |-> <<"w">>]) \o <<"\n">>

\* paragraph sizes around the limit and the overlap
ParagraphSizes ==
    {0, 1, MAX_CHUNK_WORDS - OVERLAP_WORDS, MAX_CHUNK_WORDS, MAX_CHUNK_WORDS + 1,
     2 * MAX_CHUNK_WORDS}

LongParagraphs == {LongParagraph(n) : n \in ParagraphSizes}

\* semantic_chunking after line 166, on the paragraphs of a long text (" " and
\* "\n" around the words of each paragraph)
InitSem ==
    /\ raw_paragraphs \in UNION {[1..m -> LongParagraphs] : m \in 0..MaxSemParas}
    /\ pc = "sem_for"
    /\ text = <<>>
    /\ target_encoding_words = 0
    /\ overlap_words = 0
    /\ original_paragraphs = <<>>
    /\ idx = 0
    /\ chunks = <<>>
    /\ current_chunk_paragraphs = <<>>
    /\ current_word_count = 0
    /\ split_calls = {}
    /\ ret = <<>>
    /\ prev = <<>>
    /\ para_words = <<>>
    /\ current_chunk_words = <<>>
    /\ file = "none"
    /\ raw_text = <<>>
    /\ exit_status = "none"
    /\ saved = "none"

NextSem ==
    \/ SemSkipBlank
    \/ SemTakeParagraph
    \/ SemForcedSplit
    \/ SemExtend
    \/ SemFlush

SpecSem == InitSem /\ [][NextSem]_vars

(* C12: with MAX_CHUNK_WORDS = 500 and OVERLAP_WORDS = 50, every chunk of       *)
(* semantic_chunking has at most MAX_CHUNK_WORDS words: the chunks finalized   *)
(* in the while loop, also when the chunk was already full, and the last one.  *)
C12_ChunkWithinMax ==
    \A i \in 1..Len(chunks) : Len(split_words(chunks[i])) <= MAX_CHUNK_WORDS

\* a turn of the while loop has just finalized a chunk that was already full:
\* nothing was taken from the paragraph, and the overlap is what remains
C12_Witness ==
    /\ pc = "sem_while"
    /\ chunks # <<>>
    /\ Len(split_words(chunks[Len(chunks)])) = MAX_CHUNK_WORDS
    /\ Len(current_chunk_words) = OVERLAP_WORDS
    /\ para_words = split_words(strip(raw_para))
    /\ C12_ChunkWithinMax

----------------------------------------------------------------------------
(* main of the single-file script *)

MIN_CHUNK_SIZE == 50
OCR_THRESHOLD_CHARS == 100

RECURSIVE SemWhile(_, _, _)
\* the while loop and line 209 for one paragraph
SemWhile(words, current, out) ==
    IF needs_split(words, current)
    THEN LET after == forced_split(words, current, out)
         IN  SemWhile(after.para_words, after.current_chunk_words, after.chunks)
    ELSE [chunks |-> out, current_chunk_words |-> current \o words]

RECURSIVE SemFor(_, _, _, _)
\* the for loop from paragraph i on, and the last chunk
SemFor(paras, i, current, out) ==
    IF i > Len(paras) THEN sem_flush(out, current)
    ELSE IF strip(paras[i]) = <<>> THEN SemFor(paras, i + 1, current, out)
    ELSE LET after == SemWhile(split_words(strip(paras[i])), current, out)
         IN  SemFor(paras, i + 1, after.current_chunk_words, after.chunks)

\* text.split('\n\n') by the positions of the separators: scanning from the
\* left, a pair of newlines separates when an even number of newlines precedes
\* it in its run
split_double_newline(s) ==
    LET newline(k) == k >= 1 /\ k <= Len(s) /\ s[k] = "\n"
        run_start(k) == CHOOSE j \in 1..k :
                            /\ \A m \in j..k : newline(m)
                            /\ ~newline(j - 1)
        separates(k) == newline(k) /\ newline(k + 1) /\ (k - run_start(k)) % 2 = 0
        seps == SelectSeq([k \in 1..Len(s) |-> k], separates)
    IN  [m \in 1..(Len(seps) + 1) |->
            SubSeq(s, IF m = 1 THEN 1 ELSE seps[m - 1] + 2,
                      IF m <= Len(seps) THEN seps[m] - 1 ELSE Len(s))]

\* semantic_chunking(text) as one call
semantic_chunking(s) == SemFor(split_double_newline(s), 1, <<>>, <<>>)

\* text.replace('\xa0', ' ').replace('\r', '\n')
replace_chars(s) ==
    [k \in 1..Len(s) |-> IF s[k] = "nbsp" THEN " " ELSE IF s[k] = "\r" THEN "\n" ELSE s[k]]

\* the symbols of s at the positions kept, in order
KeepAt(s, kept) == [k \in 1..Len(kept) |-> s[kept[k]]]

\* re.sub(r'\n{3,}', '\n\n', text): of a run of newlines the first two stay
CollapseNewlines(s) ==
    LET third(k) == s[k] = "\n" /\ k >= 3 /\ s[k - 1] = "\n" /\ s[k - 2] = "\n"
    IN  KeepAt(s, SelectSeq([k \in 1..Len(s) |-> k], LAMBDA k : ~third(k)))

\* re.sub(r'[ \t]+', ' ', text): a run of spaces and tabs becomes one space
CollapseSpaces(s) ==
    LET blank(k) == s[k] \in {" ", "\t"}
        inside(k) == blank(k) /\ k >= 2 /\ blank(k - 1)
        first == KeepAt(s, SelectSeq([k \in 1..Len(s) |-> k], LAMBDA k : ~inside(k)))
    IN  [k \in 1..Len(first) |-> IF first[k] = "\t" THEN " " ELSE first[k]]

clean_text(s) ==
    IF s = <<>> THEN <<>>
    ELSE strip(CollapseSpaces(CollapseNewlines(replace_chars(s))))

\* an exception raised inside the extractor's try block
read_fails(f) == f.fault # "none"

\* extract_from_pdf: "" on an exception; OCR when the text layer is short, the
\* text layer kept when OCR fails
extract_from_pdf(f) ==
    IF read_fails(f) THEN <<>>
    ELSE IF Len(strip(f.content)) < OCR_THRESHOLD_CHARS
         THEN (IF f.ocr_ok THEN f.ocr_text ELSE f.content)
         ELSE f.content

\* extract_from_docx: "" on an exception
extract_from_docx(f) == IF read_fails(f) THEN <<>> ELSE f.content

\* extract_from_txt: the latin-1 read after a UnicodeDecodeError is outside the
\* try block, "" on any other exception
extract_from_txt(f) ==
    IF f.fault = "decode" THEN [raised |-> FALSE, text |-> f.content]
    ELSE IF f.fault = "decode_then_error" THEN [raised |-> TRUE, text |-> <<>>]
    ELSE IF f.fault = "error" THEN [raised |-> FALSE, text |-> <<>>]
    ELSE [raised |-> FALSE, text |-> f.content]

\* ingest_document: FileNotFoundError, the extractor of the extension, ValueError
ingest_document(f) ==
    IF ~f.exists THEN [raised |-> TRUE, text |-> <<>>]
    ELSE IF f.ext = ".pdf" THEN [raised |-> FALSE, text |-> extract_from_pdf(f)]
    ELSE IF f.ext = ".docx" THEN [raised |-> FALSE, text |-> extract_from_docx(f)]
    ELSE IF f.ext = ".txt" THEN extract_from_txt(f)
    ELSE [raised |-> TRUE, text |-> <<>>]

\* the records save_chunks writes: the chunks of at least MIN_CHUNK_SIZE characters
save_chunks(out) ==
    SelectSeq([k \in 1..Len(out) |->
                  [chunk_index |-> k - 1, content |-> out[k],
                   word_count |-> Len(split_words(out[k])), char_count |-> Len(out[k])]],
              LAMBDA rec : rec.char_count >= MIN_CHUNK_SIZE)

main_frame ==
    /\ UNCHANGED <<idx, raw_paragraphs, para_words, current_chunk_words, file>>
    /\ UNCHANGED chunker_vars

\* lines 277 and 296-298: ingest_document raises, the run fails
MainIngestFails ==
    /\ pc = "main"
    /\ ingest_document(file).raised
    /\ exit_status' = "exit 1"
    /\ pc' = "exited"
    /\ UNCHANGED <<text, chunks, raw_text, saved>>
    /\ main_frame

\* lines 277-282: nothing was extracted, sys.exit(0) (SystemExit is no Exception)
MainNothingToDo ==
    /\ pc = "main"
    /\ ~ingest_document(file).raised
    /\ strip(ingest_document(file).text) = <<>>
    /\ raw_text' = ingest_document(file).text
    /\ exit_status' = "exit 0"
    /\ pc' = "exited"
    /\ UNCHANGED <<text, chunks, saved>>
    /\ main_frame

\* lines 277-285: the text is extracted and cleaned
MainClean ==
    /\ pc = "main"
    /\ ~ingest_document(file).raised
    /\ strip(ingest_document(file).text) # <<>>
    /\ raw_text' = ingest_document(file).text
    /\ text' = clean_text(ingest_document(file).text)
    /\ pc' = "main_chunk"
    /\ UNCHANGED <<chunks, exit_status, saved>>
    /\ main_frame

\* line 288
MainChunk ==
    /\ pc = "main_chunk"
    /\ chunks' = semantic_chunking(text)
    /\ pc' = "main_save"
    /\ UNCHANGED <<text, raw_text, exit_status, saved>>
    /\ main_frame

\* lines 292-294: the chunks are saved and main returns
MainSave ==
    /\ pc = "main_save"
    /\ file.writable
    /\ saved' = save_chunks(chunks)
    /\ exit_status' = "returned"
    /\ pc' = "exited"
    /\ UNCHANGED <<text, chunks, raw_text>>
    /\ main_frame

\* lines 292 and 296-298: save_chunks raises, the run fails
MainSaveFails ==
    /\ pc = "main_save"
    /\ ~file.writable
    /\ exit_status' = "exit 1"
    /\ pc' = "exited"
    /\ UNCHANGED <<text, chunks, raw_text, saved>>
    /\ main_frame

\* what an extractor can read: nothing, blanks, a short text, a text of more
\* than OCR_THRESHOLD_CHARS characters
EmptyText == <<>>
BlankText == <<" ", "\n", "nbsp">>
ShortText ==
    <<"a", "nbsp", "b", "\r", "\n", "\n", "\n", "c", "\t", " ", "d", "\n", "\n", " ",
      "\n", "\n", "e">>
LongText == LongParagraph(OCR_THRESHOLD_CHARS \div 2 + 1) \o PARA_SEP \o ShortText

Files ==
    [exists : BOOLEAN,
     ext : {".pdf", ".docx", ".txt", ".md"},
     fault : {"none", "error", "decode", "decode_then_error"},
     content : {EmptyText, BlankText, ShortText, LongText},
     ocr_ok : BOOLEAN,
     ocr_text : {BlankText, LongText},
     writable : BOOLEAN]

InitMain ==
    /\ file \in Files
    /\ pc = "main"
    /\ text = <<>>
    /\ target_encoding_words = 0
    /\ overlap_words = 0
    /\ original_paragraphs = <<>>
    /\ idx = 0
    /\ chunks = <<>>
    /\ current_chunk_paragraphs = <<>>
    /\ current_word_count = 0
    /\ split_calls = {}
    /\ ret = <<>>
    /\ prev = <<>>
    /\ raw_paragraphs = <<>>
    /\ para_words = <<>>
    /\ current_chunk_words = <<>>
    /\ raw_text = <<>>
    /\ exit_status = "none"
    /\ saved = "none"

NextMain ==
    \/ MainIngestFails
    \/ MainNothingToDo
    \/ MainClean
    \/ MainChunk
    \/ MainSave
    \/ MainSaveFails

SpecMain == InitMain /\ [][NextMain]_vars

\* the file is missing, its extension is not supported, or its extractor fails
\* (the latin-1 read that follows a decoding error of a .txt file is no failure)
IngestionError ==
    \/ ~file.exists
    \/ file.ext \notin {".pdf", ".docx", ".txt"}
    \/ file.fault \in {"error", "decode_then_error"}
    \/ file.fault = "decode" /\ file.ext # ".txt"

(* C11: a run whose file is missing, has an unsupported extension or fails in  *)
(* extraction ends with exit status 1 and nothing saved; a run whose           *)
(* extraction succeeds and yields only blank text ends with exit status 0,     *)
(* with nothing cleaned, chunked or saved.                                     *)
C11_ExitPolicy ==
    pc = "exited" =>
        /\ IngestionError => (exit_status = "exit 1" /\ saved = "none")
        /\ (~IngestionError /\ strip(raw_text) = <<>>) =>
              /\ exit_status = "exit 0"
              /\ text = <<>> /\ chunks = <<>> /\ saved = "none"

====
